---- MODULE Spec2Model ----
(***************************************************************************)
(* A model of macdrop.py: the selection of the container runtime, the      *)
(* construction of the runtime's argument vectors, the order and the       *)
(* results of the external invocations, and the exit status of the program.*)
(*                                                                         *)
(* Text is a sequence of chunks (a Python str cut into pieces), so that    *)
(* concatenation, len(), slicing and startswith() are computed and not     *)
(* assumed.  An argument vector is a sequence of such texts.               *)
(* An external invocation is a step that launches the runtime binary and   *)
(* yields its return code; the binary named by the selected runtime is     *)
(* taken to be launchable.                                                 *)
(***************************************************************************)
EXTENDS Integers, Sequences, FiniteSets, TLC

VARIABLES
    MACDROP_RUNTIME,  \* os.environ's MACDROP_RUNTIME: Unset or its value
    present,          \* the candidate binaries shutil.which finds
    CACHEVOLUME,      \* the module global read from MACDROP_CACHEVOLUME
    pc,               \* where the program is
    runtime,          \* main's local `runtime`
    command,          \* args.command once parsed
    cmd_args,         \* args.cmd_args once parsed
    cwd,              \* os.getcwd() as read by l3d
    cmd,              \* the vector base_run_cmd returned
    cmdparam,         \* shell's parameter
    commands,         \* run_commands_with_retry's parameter
    retries,          \* run_commands_with_retry's parameter
    delay,            \* run_commands_with_retry's parameter
    pos,              \* index of `cmd` in the for loop over commands
    attempt,          \* run_commands_with_retry's local
    trace,            \* what the program did to the outside: runs and sleeps
    exitcode          \* the exit status of the process, once pc = "done"

vars == <<MACDROP_RUNTIME, present, CACHEVOLUME, pc, runtime, command, cmd_args,
          cwd, cmd, cmdparam, commands, retries, delay, pos, attempt, trace,
          exitcode>>

----------------------------------------------------------------------------
(* Bounds of the model *)

MaxCmds == 2        \* longest command list given to the retry executor alone
MaxRetries == 2     \* largest `retries` given to the retry executor alone

----------------------------------------------------------------------------
(* Text *)

Lit(s) == <<s>>

startswith(s, p) == Len(s) >= Len(p) /\ SubSeq(s, 1, Len(p)) = p

RECURSIVE join(_, _)
join(sep, words) ==
    IF words = <<>> THEN <<>>
    ELSE IF Len(words) = 1 THEN words[1]
    ELSE words[1] \o sep \o join(sep, Tail(words))

RECURSIVE SeqsUpTo(_, _)
SeqsUpTo(S, n) ==
    IF n = 0 THEN {<<>>}
    ELSE LET shorter == SeqsUpTo(S, n - 1)
         IN  shorter \cup {Append(s, x) : s \in shorter, x \in S}

----------------------------------------------------------------------------
(* Configuration and environment *)

None == "<None>"        \* Python's None where a str is expected
Unset == "<unset>"      \* a variable absent from os.environ

NAME == Lit("macdrop")
IMAGE == Lit("docker:29-dind")
PLATFORM == Lit("linux/amd64")
PORT == Lit("8000:8000")
SETUPVERSION == Lit("registry.lakedrops.com/docker/l3d/setup:latest")

CacheVolumeValues == {<<>>, Lit("macdropcache")}

Candidates == <<"container", "docker", "podman">>

\* values MACDROP_RUNTIME may carry in the environment
OverrideValues == {Unset, "", "container", "docker", "nerdctl"}

HOME == <<"/", "home">>
home_projects == HOME \o <<"/", "Projects">>     \* os.path.expanduser("~/Projects")

\* working directories the program may be started from
Cwds == { home_projects,
          home_projects \o <<"/", "a">>,
          home_projects \o <<"/", "a", "/", "b">>,
          home_projects \o <<"-old">>,
          home_projects \o <<"-old", "/", "a">>,
          HOME,
          <<"/", "tmp">> }

\* values of SSH_AUTH_SOCK: <<>> stands for unset or empty (both falsy)
SockValues == {<<>>, <<"/", "agent.sock">>}

\* trailing argument vectors the program may be given
ArgVectors == { <<>>,
                <<Lit("up")>>,
                <<Lit("up"), Lit("-d")>> }

Choices == {"start", "stop", "shell", "l3d", "container-reset"}

\* return codes of a child process
RetCodes == {0, 1, 2}

\* the status the operating system reports for sys.exit(n)
ExitStatus(n) == n % 256

\* the status of a Python process that dies of an uncaught exception
UncaughtExit == 1

----------------------------------------------------------------------------
(* The trace *)

Run(p, c, rc) == [kind |-> "run", pos |-> p, cmd |-> c, val |-> rc]
Sleep(p, c, d) == [kind |-> "sleep", pos |-> p, cmd |-> c, val |-> d]

----------------------------------------------------------------------------
(* find_runtime and main's choice of the runtime *)

\* the first name of `order` that is in `which`, None when there is none
first_of(order, which) ==
    IF \E i \in 1..Len(order) : order[i] \in which
    THEN LET first == CHOOSE i \in 1..Len(order) :
                         /\ order[i] \in which
                         /\ \A j \in 1..(i - 1) : order[j] \notin which
         IN  order[first]
    ELSE None

\* find_runtime probing docker before container
find_runtime_docker_first(which) ==
    first_of(<<"docker", "container", "podman">>, which)

find_runtime(which) == first_of(Candidates, which)

environ_get(value, default) == IF value = Unset THEN default ELSE value

\* main letting a binary that was found win over the override
select_runtime_probe_first(env, which) ==
    IF find_runtime(which) # None THEN find_runtime(which)
    ELSE environ_get(env, None)

select_runtime(env, which) == environ_get(env, find_runtime(which))

\* Python's truth value of main's `runtime`
truthy(r) == r # None /\ r # ""

----------------------------------------------------------------------------
(* subprocess *)

\* subprocess.run(..., check=c) and check_call raise CalledProcessError
\* exactly when the child's return code is not zero and c is set
raises(check, rc) == check /\ rc # 0

----------------------------------------------------------------------------
(* base_run_cmd *)

volume_create_cmd(rt, vol) == <<Lit(rt), Lit("volume"), Lit("create"), vol>>

privileged_flags(rt) ==
    IF rt \in {"docker", "podman"} THEN <<Lit("--privileged")>> ELSE <<>>

ssh_flags(sock, sockExists) ==
    IF Len(sock) > 0 /\ sockExists
    THEN <<Lit("-e"), Lit("SSH_AUTH_SOCK=/ssh-agent"),
           Lit("-v"), sock \o Lit(":/ssh-agent")>>
    ELSE <<>>

project_flags(isdir) ==
    IF isdir
    THEN <<Lit("-v"), home_projects \o Lit(":/Projects"),
           Lit("-w"), Lit("/Projects")>>
    ELSE <<>>

\* base_run_cmd without its test of the volume name
uses_cache_always(vol) == TRUE

uses_cache(vol) == Len(vol) > 0

cache_flags(vol) ==
    IF uses_cache(vol)
    THEN <<Lit("-v"), vol \o Lit(":/var/lib/docker")>>
    ELSE <<>>

base_run_cmd(rt, sock, sockExists, isdir, vol) ==
    <<Lit(rt), Lit("run"), Lit("-d"),
      Lit("--name"), NAME,
      Lit("--platform"), PLATFORM,
      Lit("-p"), PORT>>
    \o privileged_flags(rt)
    \o ssh_flags(sock, sockExists)
    \o project_flags(isdir)
    \o cache_flags(vol)

----------------------------------------------------------------------------
(* run_setup, stop, shell, l3d, container_reset: the vectors they build *)

setup_cmd ==
    Lit("apk add bash sudo tzdata ; ")
    \o Lit("cp /usr/share/zoneinfo/UTC /etc/localtime ; ")
    \o Lit("touch /etc/timezone ; ")
    \o Lit("until docker info >/dev/null 2>&1; do echo 'Waiting for Docker...'; sleep 2; done; ")
    \o Lit("docker network create traefik-public ; ")
    \o Lit("docker run -v /usr/local/bin:/setup --rm ") \o SETUPVERSION

run_setup_cmd(rt) ==
    <<Lit(rt), Lit("exec"), Lit("-it"), NAME, Lit("/bin/sh"), Lit("-c"), setup_cmd>>

stop_cmd(rt) == <<Lit(rt), Lit("rm"), Lit("-f"), NAME>>

\* stop run with check=True
stop_check_true == TRUE

stop_check == FALSE     \* stop runs its command with check=False

shell_cmd(rt, param) == <<Lit(rt), Lit("exec"), Lit("-it"), NAME>> \o param

\* what main hands to shell for the "shell" command
main_shell_cmdparam(args) == <<Lit("sh")>>

l3d_accepts(dir) == startswith(dir, home_projects)

container_dir(dir) ==
    Lit("/Projects") \o SubSeq(dir, Len(home_projects) + 1, Len(dir))

l3d_cmdstr(dir, args) ==
    Lit("cd '") \o container_dir(dir) \o Lit("' && l3d")
    \o (IF args # <<>> THEN Lit(" ") \o join(Lit(" "), args) ELSE <<>>)

l3d_cmdparam(dir, args) == <<Lit("/bin/sh"), Lit("-c"), l3d_cmdstr(dir, args)>>

\* container_reset without its test of the runtime
reset_supported_any(rt) == TRUE

reset_supported(rt) == rt = "container"

reset_commands ==
    << <<Lit("container"), Lit("system"), Lit("stop")>>,
       <<Lit("container"), Lit("system"), Lit("start")>>,
       <<Lit("container"), Lit("rm"), Lit("-f"), Lit("--all")>> >>

DefaultRetries == 2
DefaultDelay == 1

\* run_commands_with_retry: the test made after a failed attempt was counted
\* the test off by one: gives up one attempt early
exhausted_early(a, r) == a >= r

exhausted(a, r) == a > r

\* start: the status given to sys.exit when the creation invocation failed
start_exit_always_one(rc) == 1

start_exit(rc) == rc

----------------------------------------------------------------------------
(* The program *)

Init ==
    /\ MACDROP_RUNTIME \in OverrideValues
    /\ present \in SUBSET {Candidates[i] : i \in 1..Len(Candidates)}
    /\ CACHEVOLUME \in CacheVolumeValues
    /\ pc = "main"
    /\ runtime = None
    /\ command = ""
    /\ cmd_args = <<>>
    /\ cwd = <<>>
    /\ cmd = <<>>
    /\ cmdparam = <<>>
    /\ commands = <<>>
    /\ retries = 0
    /\ delay = 0
    /\ pos = 0
    /\ attempt = 0
    /\ trace = <<>>
    /\ exitcode = 0

\* sys.exit(n), and the end of main with n = 0
Exit(n) == pc' = "done" /\ exitcode' = ExitStatus(n)

\* an exception nobody catches: traceback, status 1
Uncaught == pc' = "done" /\ exitcode' = UncaughtExit

envVars == <<MACDROP_RUNTIME, present, CACHEVOLUME>>
retryVars == <<commands, retries, delay, pos, attempt>>

\* main: the runtime is chosen, or the program gives up
SelectRuntime ==
    /\ pc = "main"
    /\ runtime' = select_runtime(MACDROP_RUNTIME, present)
    /\ IF ~truthy(runtime')
       THEN Exit(1)
       ELSE pc' = "parse" /\ UNCHANGED exitcode
    /\ UNCHANGED <<envVars, command, cmd_args, cwd, cmd, cmdparam, retryVars, trace>>

\* main: parser.parse_args()
ParseArgs ==
    /\ pc = "parse"
    /\ \E c \in Choices, a \in ArgVectors :
          /\ command' = c
          /\ cmd_args' = a
    /\ pc' = "dispatch"
    /\ UNCHANGED <<envVars, runtime, cwd, cmd, cmdparam, retryVars, trace, exitcode>>

\* main: the if/elif chain over args.command
Dispatch ==
    /\ pc = "dispatch"
    /\ pc' = CASE command = "start" -> "start"
               [] command = "stop" -> "stop"
               [] command = "shell" -> "shell"
               [] command = "l3d" -> "l3d"
               [] command = "container-reset" -> "container_reset"
    /\ cmdparam' = IF command = "shell" THEN main_shell_cmdparam(cmd_args)
                   ELSE cmdparam
    /\ UNCHANGED <<envVars, runtime, command, cmd_args, cwd, cmd, retryVars, trace,
                   exitcode>>

\* start: base_run_cmd(runtime), with its volume create call
BaseRunCmd ==
    /\ pc = "start"
    /\ \E sock \in SockValues, sockExists \in BOOLEAN, isdir \in BOOLEAN :
          cmd' = base_run_cmd(runtime, sock, sockExists, isdir, CACHEVOLUME)
    /\ IF uses_cache(CACHEVOLUME)
       THEN \E rc \in RetCodes :
               trace' = Append(trace,
                               Run(0, volume_create_cmd(runtime, CACHEVOLUME), rc))
       ELSE UNCHANGED trace
    /\ pc' = "run"
    /\ UNCHANGED <<envVars, runtime, command, cmd_args, cwd, cmdparam, retryVars,
                   exitcode>>

\* start: the creation invocation
StartRun ==
    /\ pc = "run"
    /\ \E rc \in RetCodes :
          /\ trace' = Append(trace, Run(0, cmd \o <<IMAGE>>, rc))
          /\ IF raises(TRUE, rc)
             THEN Exit(start_exit(rc))
             ELSE pc' = "run_setup" /\ UNCHANGED exitcode
    /\ UNCHANGED <<envVars, runtime, command, cmd_args, cwd, cmd, cmdparam, retryVars>>

\* start: run_setup(runtime), then the end of main
RunSetup ==
    /\ pc = "run_setup"
    /\ \E rc \in RetCodes :
          /\ trace' = Append(trace, Run(0, run_setup_cmd(runtime), rc))
          /\ IF raises(TRUE, rc) THEN Uncaught ELSE Exit(0)
    /\ UNCHANGED <<envVars, runtime, command, cmd_args, cwd, cmd, cmdparam, retryVars>>

\* stop, then the end of main
Stop ==
    /\ pc = "stop"
    /\ \E rc \in RetCodes :
          /\ trace' = Append(trace, Run(0, stop_cmd(runtime), rc))
          /\ IF raises(stop_check, rc) THEN Uncaught ELSE Exit(0)
    /\ UNCHANGED <<envVars, runtime, command, cmd_args, cwd, cmd, cmdparam, retryVars>>

\* shell
Shell ==
    /\ pc = "shell"
    /\ \E rc \in RetCodes :
          /\ trace' = Append(trace, Run(0, shell_cmd(runtime, cmdparam), rc))
          /\ Exit(rc)
    /\ UNCHANGED <<envVars, runtime, command, cmd_args, cwd, cmd, cmdparam, retryVars>>

\* l3d, up to its call of shell
L3d ==
    /\ pc = "l3d"
    /\ \E dir \in Cwds :
          /\ cwd' = dir
          /\ IF ~l3d_accepts(dir)
             THEN Exit(1) /\ UNCHANGED cmdparam
             ELSE /\ cmdparam' = l3d_cmdparam(dir, cmd_args)
                  /\ pc' = "shell"
                  /\ UNCHANGED exitcode
    /\ UNCHANGED <<envVars, runtime, command, cmd_args, cmd, retryVars, trace>>

\* container_reset, up to its call of run_commands_with_retry
ContainerReset ==
    /\ pc = "container_reset"
    /\ IF ~reset_supported(runtime)
       THEN Exit(1) /\ UNCHANGED retryVars
       ELSE /\ commands' = reset_commands
            /\ retries' = DefaultRetries
            /\ delay' = DefaultDelay
            /\ pos' = 1
            /\ attempt' = 0
            /\ pc' = "retry"
            /\ UNCHANGED exitcode
    /\ UNCHANGED <<envVars, runtime, command, cmd_args, cwd, cmd, cmdparam, trace>>

\* run_commands_with_retry: one pass of the while loop for commands[pos]
RetryAttempt ==
    /\ pc = "retry"
    /\ pos <= Len(commands)
    /\ attempt <= retries
    /\ \E rc \in RetCodes :
          LET ran == Append(trace, Run(pos, commands[pos], rc))
          IN  IF ~raises(TRUE, rc)
              THEN /\ trace' = ran                       \* break
                   /\ pos' = pos + 1
                   /\ attempt' = 0
              ELSE IF exhausted(attempt + 1, retries)
              THEN /\ trace' = ran                       \* warning, loop ends
                   /\ pos' = pos + 1
                   /\ attempt' = 0
              ELSE /\ trace' = Append(ran, Sleep(pos, commands[pos], delay))
                   /\ pos' = pos
                   /\ attempt' = attempt + 1
    /\ UNCHANGED <<envVars, pc, runtime, command, cmd_args, cwd, cmd, cmdparam,
                   commands, retries, delay, exitcode>>

\* run_commands_with_retry: the for loop is over, the function returns
RetryReturn ==
    /\ pc = "retry"
    /\ pos > Len(commands)
    /\ pc' = "returned"
    /\ UNCHANGED <<envVars, runtime, command, cmd_args, cwd, cmd, cmdparam, retryVars,
                   trace, exitcode>>

\* container_reset returns to main, which ends
MainReturn ==
    /\ pc = "returned"
    /\ Exit(0)
    /\ UNCHANGED <<envVars, runtime, command, cmd_args, cwd, cmd, cmdparam, retryVars,
                   trace>>

Next ==
    \/ SelectRuntime
    \/ ParseArgs
    \/ Dispatch
    \/ BaseRunCmd
    \/ StartRun
    \/ RunSetup
    \/ Stop
    \/ Shell
    \/ L3d
    \/ ContainerReset
    \/ RetryAttempt
    \/ RetryReturn
    \/ MainReturn

Spec == Init /\ [][Next]_vars

----------------------------------------------------------------------------
(* run_commands_with_retry on its own, for any list and any retries *)

RetryCommands == {<<Lit("a")>>, <<Lit("b"), Lit("x")>>}

InitRetry ==
    /\ MACDROP_RUNTIME = Unset
    /\ present = {}
    /\ CACHEVOLUME = <<>>
    /\ pc = "retry"
    /\ runtime = None
    /\ command = ""
    /\ cmd_args = <<>>
    /\ cwd = <<>>
    /\ cmd = <<>>
    /\ cmdparam = <<>>
    /\ commands \in SeqsUpTo(RetryCommands, MaxCmds)
    /\ retries \in 0..MaxRetries
    /\ delay \in {0, DefaultDelay}
    /\ pos = 1
    /\ attempt = 0
    /\ trace = <<>>
    /\ exitcode = 0

NextRetry == RetryAttempt \/ RetryReturn

SpecRetry == InitRetry /\ [][NextRetry]_vars

----------------------------------------------------------------------------
(* What the claims speak about *)

Idx == 1..Len(trace)
RunIdx == {k \in Idx : trace[k].kind = "run"}

\* the runs and the sleeps the retry executor made for commands[p]
RunsAt(p) == {k \in Idx : trace[k].kind = "run" /\ trace[k].pos = p}
SleepsAt(p) == {k \in Idx : trace[k].kind = "sleep" /\ trace[k].pos = p}
AlwaysFailed(p) ==
    \A k \in Idx : (trace[k].kind = "run" /\ trace[k].pos = p) => trace[k].val # 0

\* a run that returned 0 is the last event of its command
SuccessEndsCommand ==
    \A k \in Idx :
       (trace[k].kind = "run" /\ trace[k].val = 0 /\ k < Len(trace))
          => trace[k + 1].pos > trace[k].pos

\* a sleep comes right after a failed run of its command and, once the
\* program has moved on, right before another run of that command
SleepsBetweenAttempts ==
    \A k \in Idx :
       trace[k].kind = "sleep" =>
          /\ trace[k].val = delay
          /\ k > 1
          /\ trace[k - 1].kind = "run"
          /\ trace[k - 1].pos = trace[k].pos
          /\ trace[k - 1].val # 0
          /\ IF k < Len(trace)
             THEN trace[k + 1].kind = "run" /\ trace[k + 1].pos = trace[k].pos
             ELSE pos = trace[k].pos /\ pc = "retry"

\* the invocations by their subcommand, the second word of the vector
CreationIdx == {k \in RunIdx : trace[k].cmd[2] = <<"run">>}
VolumeIdx == {k \in RunIdx : trace[k].cmd[2] = <<"volume">>}
ExecIdx == {k \in RunIdx : trace[k].cmd[2] = <<"exec">>}

EndsWith(tok, chunk) == Len(tok) > 0 /\ tok[Len(tok)] = chunk
IsCacheMount(tok) == EndsWith(tok, ":/var/lib/docker")
IsSshOrProjectFlag(tok) ==
    \/ EndsWith(tok, ":/ssh-agent")
    \/ EndsWith(tok, ":/Projects")
    \/ tok \in {<<"-e">>, <<"SSH_AUTH_SOCK=/ssh-agent">>, <<"-w">>, <<"/Projects">>}

\* a directory that is the project root or lies in its subtree
UnderRoot(dir) ==
    \/ dir = <<"/", "home", "/", "Projects">>
    \/ startswith(dir, <<"/", "home", "/", "Projects", "/">>)

----------------------------------------------------------------------------
\* C1: with MACDROP_RUNTIME unset, main's runtime is the first of container,
\* docker, podman that is present; when none is present the program has
\* exited with a non-zero status, has parsed no command and has invoked
\* nothing.
C1_FirstPresentOrExit ==
    (MACDROP_RUNTIME = Unset /\ pc # "main") =>
        /\ "container" \in present => runtime = "container"
        /\ ("container" \notin present /\ "docker" \in present)
              => runtime = "docker"
        /\ ("container" \notin present /\ "docker" \notin present
              /\ "podman" \in present) => runtime = "podman"
        /\ present # {} => \A k \in RunIdx : trace[k].cmd[1] = <<runtime>>
        /\ present = {} =>
              /\ pc = "done"
              /\ exitcode # 0
              /\ command = ""
              /\ trace = <<>>

\* docker and podman are present, container is not, and docker was invoked
C1_Witness ==
    /\ MACDROP_RUNTIME = Unset
    /\ present = {"docker", "podman"}
    /\ pc = "done"
    /\ runtime = "docker"
    /\ RunIdx # {}
    /\ \A k \in RunIdx : trace[k].cmd[1] = <<"docker">>

\* C2: when MACDROP_RUNTIME is set, main's runtime is its value and every
\* invocation launches that value, whatever binaries are present.
C2_OverrideWins ==
    (MACDROP_RUNTIME # Unset /\ pc # "main") =>
        /\ runtime = MACDROP_RUNTIME
        /\ \A k \in RunIdx : trace[k].cmd[1] = <<MACDROP_RUNTIME>>

\* the override names none of the candidates, all three are present, and
\* the override was invoked
C2_Witness ==
    /\ MACDROP_RUNTIME = "nerdctl"
    /\ present = {"container", "docker", "podman"}
    /\ pc = "done"
    /\ RunIdx # {}
    /\ \A k \in RunIdx : trace[k].cmd[1] = <<"nerdctl">>

\* C3: the retry executor works through the list in order; a command is
\* attempted until its first success or until retries + 1 attempts failed;
\* a command whose attempts all fail gets exactly retries + 1 attempts and
\* exactly `retries` sleeps of `delay`, each between two attempts of that
\* command; the next command is still attempted and the executor returns.
C3_BoundedRetry ==
    /\ pc \in {"retry", "returned"}
    /\ \A k \in Idx :
          /\ trace[k].pos \in 1..Len(commands)
          /\ trace[k].cmd = commands[trace[k].pos]
          /\ k > 1 => trace[k - 1].pos <= trace[k].pos
    /\ SuccessEndsCommand
    /\ SleepsBetweenAttempts
    /\ \A p \in 1..Len(commands) :
          /\ Cardinality(RunsAt(p)) <= retries + 1
          /\ pos > p =>
                /\ RunsAt(p) # {}
                /\ AlwaysFailed(p) =>
                      /\ Cardinality(RunsAt(p)) = retries + 1
                      /\ Cardinality(SleepsAt(p)) = retries
    /\ pc = "returned" => pos = Len(commands) + 1 /\ exitcode = 0

\* two commands, two retries: the first failed three times, two sleeps were
\* taken, the second was attempted, and the executor returned
C3_Witness ==
    /\ pc = "returned"
    /\ retries = 2
    /\ Len(commands) = 2
    /\ AlwaysFailed(1)
    /\ Cardinality(RunsAt(1)) = 3
    /\ Cardinality(SleepsAt(1)) = 2
    /\ RunsAt(2) # {}

\* C4: start issues the provisioning invocation only after a creation
\* invocation that returned 0, and then exactly once; the creation
\* invocation is never repeated; when it returns a non-zero code the program
\* ends with that code and no provisioning invocation is made.
C4_StartOrder ==
    command = "start" =>
        /\ Cardinality(CreationIdx) <= 1
        /\ Cardinality(ExecIdx) <= 1
        /\ \A s \in ExecIdx :
              \E c \in CreationIdx : c < s /\ trace[c].val = 0
        /\ \A c \in CreationIdx :
              trace[c].val # 0 =>
                 /\ pc = "done"
                 /\ exitcode = trace[c].val
                 /\ ExecIdx = {}
        /\ (pc = "done" /\ \E c \in CreationIdx : trace[c].val = 0)
              => Cardinality(ExecIdx) = 1

\* the creation invocation returned 2 and the program ended with 2
C4_Witness ==
    /\ command = "start"
    /\ pc = "done"
    /\ \E c \in CreationIdx : trace[c].val = 2
    /\ exitcode = 2
    /\ ExecIdx = {}

\* C5: when the creation invocation succeeded and the provisioning
\* invocation returns a non-zero code, the program ends with that code.
C5_ProvisioningCodePropagates ==
    (command = "start" /\ pc = "done") =>
        \A s \in ExecIdx : trace[s].val # 0 => exitcode = trace[s].val

\* C6: container-reset with a runtime other than "container" exits 1 having
\* invoked nothing; with "container" it runs system stop, system start and
\* rm -f --all in this order, each at most three times and never again after
\* a success, attempts all three whatever failed, and the program exits 0.
C6_Reset ==
    (command = "container-reset" /\ pc \notin {"dispatch", "container_reset"}) =>
        IF runtime # "container"
        THEN pc = "done" /\ exitcode = 1 /\ trace = <<>>
        ELSE /\ \A k \in Idx :
                   /\ trace[k].pos \in 1..3
                   /\ k > 1 => trace[k - 1].pos <= trace[k].pos
                   /\ trace[k].pos = 1 =>
                         trace[k].cmd = <<<<"container">>, <<"system">>, <<"stop">>>>
                   /\ trace[k].pos = 2 =>
                         trace[k].cmd = <<<<"container">>, <<"system">>, <<"start">>>>
                   /\ trace[k].pos = 3 =>
                         trace[k].cmd =
                            <<<<"container">>, <<"rm">>, <<"-f">>, <<"--all">>>>
             /\ SuccessEndsCommand
             /\ \A p \in 1..3 :
                   /\ Cardinality(RunsAt(p)) <= 3
                   /\ pc \in {"returned", "done"} =>
                         /\ RunsAt(p) # {}
                         /\ AlwaysFailed(p) => Cardinality(RunsAt(p)) = 3
             /\ pc = "done" => exitcode = 0

\* every attempt of every step failed, nine in all, and the program exited 0
C6_Witness ==
    /\ command = "container-reset"
    /\ runtime = "container"
    /\ pc = "done"
    /\ exitcode = 0
    /\ Cardinality(RunIdx) = 9
    /\ \A p \in 1..3 : AlwaysFailed(p) /\ Cardinality(RunsAt(p)) = 3

\* C7: l3d started from a directory that is neither the project root nor in
\* its subtree invokes nothing and exits 1.
C7_OutsideRootRejected ==
    (command = "l3d" /\ cwd # <<>> /\ ~UnderRoot(cwd)) =>
        /\ trace = <<>>
        /\ pc = "done" => exitcode = 1

\* C8: stop makes exactly one invocation, rm -f of the named container, and
\* the program exits 0 whatever that invocation returned.
C8_StopExitsZero ==
    command = "stop" =>
        /\ Len(trace) <= 1
        /\ \A k \in Idx :
              /\ trace[k].kind = "run"
              /\ trace[k].cmd = <<<<runtime>>, <<"rm">>, <<"-f">>, <<"macdrop">>>>
        /\ pc = "done" => (Len(trace) = 1 /\ exitcode = 0)

\* the removal returned 2 and the program exited 0
C8_Witness ==
    /\ command = "stop"
    /\ pc = "done"
    /\ Len(trace) = 1
    /\ trace[1].val = 2
    /\ exitcode = 0

\* C9: with an empty cache-volume name the creation invocation has no mount
\* of the engine data directory and no volume create call is made; with a
\* non-empty name it has exactly one such mount, "-v <name>:/var/lib/docker",
\* after every SSH-agent and project flag, a volume create call for that
\* name comes before it, and the creation invocation is made whatever the
\* volume create call returned.
C9_CacheVolume ==
    /\ CACHEVOLUME = <<>> => VolumeIdx = {}
    /\ (command = "start" /\ pc \in {"run_setup", "done"}) => CreationIdx # {}
    /\ \A k \in CreationIdx :
          LET c == trace[k].cmd
              mounts == {i \in 1..Len(c) : IsCacheMount(c[i])}
          IN  IF CACHEVOLUME = <<>>
              THEN mounts = {}
              ELSE /\ Cardinality(mounts) = 1
                   /\ \A i \in mounts :
                         /\ c[i] = CACHEVOLUME \o <<":/var/lib/docker">>
                         /\ i > 1 /\ c[i - 1] = <<"-v">>
                         /\ \A j \in 1..Len(c) : IsSshOrProjectFlag(c[j]) => j < i
                   /\ \E v \in VolumeIdx :
                         /\ v < k
                         /\ trace[v].cmd = <<<<runtime>>, <<"volume">>, <<"create">>,
                                             CACHEVOLUME>>

\* the volume create call returned 2, and the creation invocation was made
\* with the SSH-agent mount, the project mount and the cache mount
C9_Witness ==
    /\ CACHEVOLUME # <<>>
    /\ \E v \in VolumeIdx : trace[v].val = 2
    /\ \E k \in CreationIdx :
          LET c == trace[k].cmd
          IN  /\ \E i \in 1..Len(c) : EndsWith(c[i], ":/ssh-agent")
              /\ \E i \in 1..Len(c) : EndsWith(c[i], ":/Projects")
              /\ \E i \in 1..Len(c) : IsCacheMount(c[i])

\* C10: the exec invocation of shell runs the trailing vector when one is
\* given and the default shell otherwise; that of l3d ends in a command
\* string whose words after "l3d" are the trailing arguments, each after one
\* space, in order.
C10_ArgsPassedThrough ==
    \A k \in ExecIdx :
       LET c == trace[k].cmd
       IN  /\ command = "shell" =>
                SubSeq(c, 5, Len(c)) =
                   (IF cmd_args # <<>> THEN cmd_args ELSE <<<<"sh">>>>)
           /\ command = "l3d" =>
                LET str == c[Len(c)]
                    n == Len(cmd_args)
                    tail == SubSeq(str, Len(str) - 2 * n + 1, Len(str))
                IN  /\ Len(str) >= 2 * n + 1
                    /\ str[Len(str) - 2 * n] = "' && l3d"
                    /\ \A i \in 1..n :
                          /\ tail[2 * i - 1] = " "
                          /\ <<tail[2 * i]>> = cmd_args[i]
====
